---- MODULE Spec2Model ----
(***************************************************************************)
(* PostgresBackup (src/main.py): per environment, dump every configured   *)
(* database inside its container, copy the dump to the host, remove the   *)
(* in-container temp file, then prune dump files older than the retention *)
(* window.  The file system, the clock and the external commands are the  *)
(* environment: their outcomes are nondeterministic.                      *)
(***************************************************************************)
EXTENDS Integers, Sequences, FiniteSets, TLC

(* ---------------------------- bounds ---------------------------------- *)
\* dump files already in a backup directory before the run
MaxPreFiles == 2
\* seconds an external command may take (0..MaxCmdSeconds)
MaxCmdSeconds == 1

(* ------------------- configuration (src/main.py:142-161) -------------- *)
Envs == {"dev", "test"}

container_name(e) == IF e = "dev" THEN "postgis" ELSE "testpostgis"

postgres_user(e) == "postgres"

backup_dir(e) == IF e = "dev" THEN "/opt/hdd/postgreSQLBackup/dev"
                 ELSE "/opt/hdd/postgreSQLBackup/test"

databases(e) == IF e = "dev" THEN <<"USD_sample", "postgres">> ELSE <<"postgres">>

retention_days(e) == 365

SecondsPerDay == 24 * 60 * 60

\* wall clock (seconds) at process start; late enough for every modelled mtime
StartTime == 400 * SecondsPerDay

(* ----------------------------- state ---------------------------------- *)
VARIABLES
    pc,           \* position of the host / the orchestrator
    queue,        \* environments the host constructs and runs, in order
    idx,          \* index in queue of the environment being processed
    dryRun,       \* dry_run argument of the current run
    result,       \* result[e]: "True" / "False" returned by run, "none" before
    exitStatus,   \* process exit status (-1 while running)
    dirExists,    \* dirExists[e]: backup_dir exists on the host
    creatable,    \* creatable[e]: os.makedirs can create backup_dir when absent
    files,        \* files[e]: files directly under backup_dir
    tmp,          \* tmp[e]: files under /tmp inside the container of e
    handlers,     \* handlers of the shared logger "db_backup", in addition order
    logFile,      \* logFile[e]: lines written through the handler of e
    now,          \* wall clock, seconds
    i,            \* index of the database in the loop of run
    step,         \* index of the command in the loop of backup_database
    art,          \* file name computed by the current backup_database call
    attempts,     \* attempts[e]: databases backup_database was called for
    calls,        \* invocations of the command executor (subprocess.run)
    status,       \* status[e][k]: state of the k-th database of e
    created,      \* created[e]: local file names written by the fetch of this run
    pending,      \* dump files of the glob not yet visited by cleanup
    current_time, \* time.time() taken by cleanup_old_backups
    cleanupCalls, \* cleanupCalls[e]: calls of cleanup_old_backups
    deleted,      \* deleted[e]: files unlinked by cleanup_old_backups
    scanned,      \* scanned[e]: files as cleanup_old_backups found them
    dirAtStart    \* dirAtStart[e]: <<dirExists, files>> when run was entered

vars == <<pc, queue, idx, dryRun, result, exitStatus, dirExists, creatable, files,
          tmp, handlers, logFile, now, i, step, art, attempts, calls, status,
          created, pending, current_time, cleanupCalls, deleted, scanned, dirAtStart>>

cur == queue[idx]

(* ------------------------- file names, paths -------------------------- *)
\* datetime.now().strftime("%Y%m%d_%H%M%S"): a date part and a time-of-day part
date_str(t) == <<t \div SecondsPerDay, t % SecondsPerDay>>

\* a file name that leaves the database name out
backup_filename_without_db(db, t) == <<"backup">> \o date_str(t) \o <<"dump">>

\* f"{db_name}_{date_str}.dump"
backup_filename(db, t) == <<db>> \o date_str(t) \o <<"dump">>

\* f"/tmp/{backup_filename}"
container_path(fn) == <<"/tmp">> \o fn

\* os.path.join(self.backup_dir, backup_filename)
local_path(e, fn) == <<backup_dir(e)>> \o fn

\* os.path.join(self.backup_dir, "backup.log")
log_file == <<"backup", 0, 0, "log">>

\* backup.log.1, the first rotation kept by the RotatingFileHandler
rotated_log == <<"backup", 0, 0, "log.1">>

NoName == <<"-", 0, 0, "-">>

\* a glob that matches every file of the directory
is_any_file(f) == TRUE

\* Path.glob("*.dump")
is_dump(f) == f.name[4] = "dump"

File(n, m, c) == [name |-> n, mtime |-> m, content |-> c]

\* writing a file replaces a file of the same name
put_file(fs, f) == {g \in fs : g.name # f.name} \cup {f}

\* the three commands of backup_database, in list order
commands(e, db, fn) ==
    << <<"docker", "exec", container_name(e), "pg_dump", "-U", postgres_user(e),
         "-d", db, "-F", "c", "-f", container_path(fn)>>,
       <<"docker", "cp", <<container_name(e), container_path(fn)>>, local_path(e, fn)>>,
       <<"docker", "exec", container_name(e), "rm", container_path(fn)>> >>

NumCommands == 3

StepName(s) == IF s = 1 THEN "DUMPING" ELSE IF s = 2 THEN "FETCHING" ELSE "REMOTE_CLEANUP"

(* ------------------------------ logging ------------------------------- *)
Line(level, msg, dry, db, cmd, file) ==
    [level |-> level, msg |-> msg, dry |-> dry, db |-> db, cmd |-> cmd, file |-> file]

NoCmd == <<>>

RECURSIVE Times(_, _)
Times(ls, n) == IF n = 0 THEN <<>> ELSE ls \o Times(ls, n - 1)

HandlerCount(hs, e) == Cardinality({k \in DOMAIN hs : hs[k] = e})

\* a logger of its own for every orchestrator: the record reaches only the
\* handler of the orchestrator that logs
Emit_own_logger(ls) ==
    logFile' = [logFile EXCEPT ![queue[idx]] = @ \o ls]

\* logger.info / logger.error: every handler of the shared logger gets the record
Emit(ls) ==
    logFile' = [e \in Envs |-> logFile[e] \o Times(ls, HandlerCount(handlers, e))]

(* --------------------------- initial state ---------------------------- *)
max_age(e) == retention_days(e) * 24 * 60 * 60

\* ages (at process start) of the dump files found in a backup directory
PreAges(e) == {max_age(e) - 1, max_age(e), max_age(e) + 1}

PreFile(e, a) == File(backup_filename(databases(e)[1], StartTime - a), StartTime - a, "full")

PreSets(e) == {S \in SUBSET {PreFile(e, a) : a \in PreAges(e)} : Cardinality(S) <= MaxPreFiles}

\* the log files an earlier process left in a backup directory, older than
\* the retention window
OldLogs(e) == {File(log_file, StartTime - max_age(e) - 1, "log"),
               File(rotated_log, StartTime - max_age(e) - 2, "log")}

NoStatus == [e \in Envs |-> [k \in DOMAIN databases(e) |-> "START"]]

InitCommon ==
    /\ pc = "construct"
    /\ idx = 1
    /\ dryRun = FALSE
    /\ result = [e \in Envs |-> "none"]
    /\ exitStatus = -1
    /\ dirExists \in [Envs -> BOOLEAN]
    /\ creatable \in [Envs -> BOOLEAN]
    /\ \A e \in Envs : e \notin {queue[k] : k \in DOMAIN queue} =>
                          ~dirExists[e] /\ ~creatable[e]
    /\ \A e \in Envs : dirExists[e] => creatable[e]
    /\ \E fd \in PreSets("dev"), ft \in PreSets("test") :
         files = [e \in Envs |-> IF ~dirExists[e] THEN {}
                                 ELSE OldLogs(e) \cup (IF e = "dev" THEN fd ELSE ft)]
    /\ tmp = [e \in Envs |-> {}]
    /\ handlers = <<>>
    /\ logFile = [e \in Envs |-> <<>>]
    /\ now = StartTime
    /\ i = 0
    /\ step = 0
    /\ art = NoName
    /\ attempts = [e \in Envs |-> <<>>]
    /\ calls = <<>>
    /\ status = NoStatus
    /\ created = [e \in Envs |-> {}]
    /\ pending = {}
    /\ current_time = 0
    /\ cleanupCalls = [e \in Envs |-> 0]
    /\ deleted = [e \in Envs |-> {}]
    /\ scanned = [e \in Envs |-> {}]
    /\ dirAtStart = [e \in Envs |-> <<FALSE, {}>>]

\* one orchestrator, of either environment, constructed and run by its caller
Init ==
    /\ queue \in {<<"dev">>, <<"test">>}
    /\ InitCommon

(* ------------------------- PostgresBackup.__init__ -------------------- *)
\* os.makedirs(exist_ok=True): fails only when the directory is absent and
\* cannot be created
makedirs_ok(e) == dirExists[e] \/ creatable[e]

\* __init__ has no try: a failing os.makedirs raises to the caller, and
\* nothing in __main__ catches it: the interpreter prints the traceback and
\* exits with status 1
Construct ==
    /\ pc = "construct"
    /\ IF makedirs_ok(cur)
       THEN /\ dirExists' = [dirExists EXCEPT ![cur] = TRUE]
            /\ files' = [files EXCEPT ![cur] =
                            IF \E f \in @ : f.name = log_file THEN @
                            ELSE @ \cup {File(log_file, now, "log")}]
            /\ handlers' = Append(handlers, cur)
            /\ pc' = "constructed"
            /\ UNCHANGED exitStatus
       ELSE /\ pc' = "crashed"
            /\ exitStatus' = 1
            /\ UNCHANGED <<dirExists, files, handlers>>
    /\ UNCHANGED <<queue, idx, dryRun, result, creatable, tmp, logFile, now,
                   i, step, art, attempts, calls, status, created, pending,
                   current_time, cleanupCalls, deleted, scanned, dirAtStart>>

\* the host file system between construction and run: the directory may be
\* gone again, which is what the os.makedirs of run is there for
DirRemoved ==
    /\ pc = "constructed"
    /\ dirExists[cur]
    /\ \E c \in BOOLEAN : creatable' = [creatable EXCEPT ![cur] = c]
    /\ dirExists' = [dirExists EXCEPT ![cur] = FALSE]
    /\ files' = [files EXCEPT ![cur] = {}]
    /\ UNCHANGED <<pc, queue, idx, dryRun, result, exitStatus, tmp, handlers, logFile,
                   now, i, step, art, attempts, calls, status, created, pending,
                   current_time, cleanupCalls, deleted, scanned, dirAtStart>>

(* --------------------------- PostgresBackup.run ----------------------- *)
\* run(dry_run): the start line, then the try block
RunCalled(d) ==
    /\ pc = "constructed"
    /\ dryRun' = d
    /\ Emit(<<Line("INFO", "run_start", d, "-", NoCmd, NoName)>>)
    /\ dirAtStart' = [dirAtStart EXCEPT ![cur] = <<dirExists[cur], files[cur]>>]
    /\ pc' = "mkdir"
    /\ UNCHANGED <<queue, idx, result, exitStatus, dirExists, creatable, files, tmp,
                   handlers, now, i, step, art, attempts, calls, status, created,
                   pending, current_time, cleanupCalls, deleted, scanned>>

\* a caller of the class passes either value of dry_run
RunBegin == \E d \in BOOLEAN : RunCalled(d)

\* __main__ passes dry_run=False (lines 151 and 161)
HostRun == RunCalled(FALSE)

\* os.makedirs(self.backup_dir, exist_ok=True); on failure the except of run
\* logs and returns False
RunMkdir ==
    /\ pc = "mkdir"
    /\ IF makedirs_ok(cur)
       THEN /\ dirExists' = [dirExists EXCEPT ![cur] = TRUE]
            /\ i' = 1
            /\ pc' = "loop"
            /\ UNCHANGED <<result, logFile>>
       ELSE /\ Emit(<<Line("ERROR", "run_failed", FALSE, "-", NoCmd, NoName)>>)
            /\ result' = [result EXCEPT ![cur] = "False"]
            /\ pc' = "returned"
            /\ UNCHANGED <<dirExists, i>>
    /\ UNCHANGED <<queue, idx, dryRun, exitStatus, creatable, files, tmp, handlers, now,
                   step, art, attempts, calls, status, created, pending, current_time,
                   cleanupCalls, deleted, scanned, dirAtStart>>

(* ----------------------- PostgresBackup.backup_database --------------- *)
\* entry of backup_database(db, dry_run): the file name is computed from the
\* clock at call time
BackupBegin ==
    /\ pc = "loop"
    /\ i <= Len(databases(cur))
    /\ art' = backup_filename(databases(cur)[i], now)
    /\ attempts' = [attempts EXCEPT ![cur] = Append(@, databases(cur)[i])]
    /\ step' = 1
    /\ pc' = "cmd"
    /\ UNCHANGED <<queue, idx, dryRun, result, exitStatus, dirExists, creatable, files,
                   tmp, handlers, logFile, now, i, calls, status, created, pending,
                   current_time, cleanupCalls, deleted, scanned, dirAtStart>>

cmd_now == commands(cur, databases(cur)[i], art)[step]

\* run_cmd with dry_run: the line is logged and nothing is executed
RunCmdDry ==
    /\ pc = "cmd"
    /\ step <= NumCommands
    /\ dryRun
    /\ Emit(<<Line("INFO", "cmd", TRUE, databases(cur)[i], cmd_now, NoName)>>)
    /\ step' = step + 1
    /\ UNCHANGED <<pc, queue, idx, dryRun, result, exitStatus, dirExists, creatable,
                   files, tmp, handlers, now, i, art, attempts, calls, status, created,
                   pending, current_time, cleanupCalls, deleted, scanned, dirAtStart>>

\* run_cmd without dry_run: the line is logged and subprocess.run is called,
\* which blocks until the command exits
RunCmdDispatch ==
    /\ pc = "cmd"
    /\ step <= NumCommands
    /\ ~dryRun
    /\ Emit(<<Line("INFO", "cmd", FALSE, databases(cur)[i], cmd_now, NoName)>>)
    /\ calls' = Append(calls, [env |-> cur, k |-> i, cmd |-> cmd_now])
    /\ status' = [status EXCEPT ![cur][i] = StepName(step)]
    /\ pc' = "wait"
    /\ UNCHANGED <<queue, idx, dryRun, result, exitStatus, dirExists, creatable, files,
                   tmp, handlers, now, i, step, art, attempts, created, pending,
                   current_time, cleanupCalls, deleted, scanned, dirAtStart>>

(* the command executor: what docker does with an argument vector *)
IsDump(c) == c[2] = "exec" /\ c[4] = "pg_dump"
IsCopy(c) == c[2] = "cp"
IsRemove(c) == c[2] = "exec" /\ c[4] = "rm"

\* a command that can exit 0: cp and rm need their source file
CanSucceed(c) ==
    \/ IsDump(c)
    \/ IsCopy(c) /\ c[3][2] \in tmp[cur]
    \/ IsRemove(c) /\ c[5] \in tmp[cur]

\* the local file a docker cp writes: the destination path without its directory
CopyTarget(c) == Tail(c[4])

\* effect of the command on the container and on the host directory; full is
\* FALSE for what a failing command leaves behind
Executed(c, full, t) ==
    IF IsDump(c)
    THEN /\ tmp' = [tmp EXCEPT ![cur] = @ \cup {c[12]}]
         /\ UNCHANGED <<files, created>>
    ELSE IF IsCopy(c)
    THEN /\ files' = [files EXCEPT ![cur] =
                        put_file(@, File(CopyTarget(c), t, IF full THEN "full" ELSE "partial"))]
         /\ created' = [created EXCEPT ![cur] = @ \cup {CopyTarget(c)}]
         /\ UNCHANGED tmp
    ELSE /\ tmp' = [tmp EXCEPT ![cur] = IF full THEN @ \ {c[5]} ELSE @]
         /\ UNCHANGED <<files, created>>

\* run_cmd without the raise of line 59
run_cmd_swallows == FALSE

\* line 59: run_cmd re-raises the CalledProcessError after logging stderr
run_cmd_reraises == TRUE

\* backup_database with a raise after line 100
backup_database_propagates == TRUE

\* lines 99-100: backup_database logs the exception and returns normally
backup_database_reraises == FALSE

\* backup_database that starts over with the first command after a failure,
\* once per database, before it gives up
BackupFailed_retries(lines) ==
    IF Len(SelectSeq(calls, LAMBDA c : c.env = cur /\ c.k = i)) <= NumCommands
    THEN /\ Emit(lines)
         /\ step' = 1
         /\ pc' = "cmd"
         /\ UNCHANGED <<i, result, status>>
    ELSE /\ status' = [status EXCEPT ![cur][i] = "FAILED"]
         /\ Emit(lines \o <<Line("ERROR", "backup_failed", FALSE, databases(cur)[i], NoCmd, NoName)>>)
         /\ i' = i + 1
         /\ pc' = "loop"
         /\ UNCHANGED <<result, step>>

\* backup_database with the completion line of line 97 after the try
\* statement instead of inside it: it is logged after the failure line too
BackupFailed_then_completion(lines) ==
    /\ status' = [status EXCEPT ![cur][i] = "FAILED"]
    /\ Emit(lines \o <<Line("ERROR", "backup_failed", FALSE, databases(cur)[i], NoCmd, NoName),
                       Line("INFO", "backup_done", FALSE, databases(cur)[i], NoCmd, NoName)>>)
    /\ i' = i + 1
    /\ pc' = "loop"
    /\ UNCHANGED <<result, step>>

\* the except of backup_database: the failure line, then back in the loop of
\* run (or, were it to re-raise, in the except of run)
BackupFailed(lines) ==
    /\ status' = [status EXCEPT ![cur][i] = "FAILED"]
    /\ IF backup_database_reraises
       THEN /\ Emit(lines \o <<Line("ERROR", "backup_failed", FALSE, databases(cur)[i], NoCmd, NoName),
                               Line("ERROR", "run_failed", FALSE, "-", NoCmd, NoName)>>)
            /\ result' = [result EXCEPT ![cur] = "False"]
            /\ pc' = "returned"
            /\ UNCHANGED <<i, step>>
       ELSE /\ Emit(lines \o <<Line("ERROR", "backup_failed", FALSE, databases(cur)[i], NoCmd, NoName)>>)
            /\ i' = i + 1
            /\ pc' = "loop"
            /\ UNCHANGED <<result, step>>

\* subprocess.run returns: exit status 0
CmdExitOk ==
    /\ pc = "wait"
    /\ CanSucceed(cmd_now)
    /\ \E d \in 0..MaxCmdSeconds :
         /\ now' = now + d
         /\ Executed(cmd_now, TRUE, now + d)
    /\ step' = step + 1
    /\ pc' = "cmd"
    /\ UNCHANGED <<queue, idx, dryRun, result, exitStatus, dirExists, creatable,
                   handlers, logFile, i, art, attempts, calls, status, pending,
                   current_time, cleanupCalls, deleted, scanned, dirAtStart>>

\* subprocess.run raises CalledProcessError (non-zero exit): stderr is logged;
\* the command may have left a partial file behind
CmdExitNonZero ==
    /\ pc = "wait"
    /\ \E d \in 0..MaxCmdSeconds, leaves \in BOOLEAN :
         /\ now' = now + d
         /\ IF leaves /\ ~IsRemove(cmd_now)
            THEN Executed(cmd_now, FALSE, now + d)
            ELSE UNCHANGED <<files, tmp, created>>
    /\ IF run_cmd_reraises
       THEN BackupFailed(<<Line("ERROR", "stderr", FALSE, databases(cur)[i], cmd_now, NoName)>>)
       ELSE /\ Emit(<<Line("ERROR", "stderr", FALSE, databases(cur)[i], cmd_now, NoName)>>)
            /\ step' = step + 1
            /\ pc' = "cmd"
            /\ UNCHANGED <<i, result, status>>
    /\ UNCHANGED <<queue, idx, dryRun, exitStatus, dirExists, creatable, handlers, art,
                   attempts, calls, pending, current_time, cleanupCalls, deleted,
                   scanned, dirAtStart>>

\* subprocess.run raises another exception (the docker binary cannot be
\* started): run_cmd does not catch it, backup_database does
CmdLaunchError ==
    /\ pc = "wait"
    /\ BackupFailed(<<>>)
    /\ UNCHANGED <<queue, idx, dryRun, exitStatus, dirExists, creatable, files, tmp,
                   handlers, now, art, attempts, calls, created, pending, current_time,
                   cleanupCalls, deleted, scanned, dirAtStart>>

\* the loop over the commands is over: the completion line
BackupComplete ==
    /\ pc = "cmd"
    /\ step > NumCommands
    /\ Emit(<<Line("INFO", "backup_done", dryRun, databases(cur)[i], NoCmd, NoName)>>)
    /\ status' = [status EXCEPT ![cur][i] = IF dryRun THEN @ ELSE "DONE"]
    /\ i' = i + 1
    /\ pc' = "loop"
    /\ UNCHANGED <<queue, idx, dryRun, result, exitStatus, dirExists, creatable, files,
                   tmp, handlers, now, step, art, attempts, calls, created, pending,
                   current_time, cleanupCalls, deleted, scanned, dirAtStart>>

(* --------------------- PostgresBackup.cleanup_old_backups ------------- *)
\* line 111: current_time - file.stat().st_mtime > max_age
expired(t, mtime, age) == t - mtime > age

\* cleanup_old_backups with a raise after line 119
cleanup_propagates == TRUE

\* lines 118-119: cleanup_old_backups logs the exception and returns normally
cleanup_reraises == FALSE

\* where cleanup_old_backups returns to: line 135 of run when run called it,
\* the caller of the class when that called it itself after run
cleanup_returns_to == IF cleanupCalls[cur] <= 1 THEN "run_end" ELSE "returned"

\* the loop of run is over: cleanup_old_backups takes the clock and lists the
\* *.dump files of the directory
CleanupBegin ==
    /\ pc = "loop"
    /\ i > Len(databases(cur))
    /\ cleanupCalls' = [cleanupCalls EXCEPT ![cur] = @ + 1]
    /\ current_time' = now
    /\ pending' = {f \in files[cur] : is_dump(f)}
    /\ scanned' = [scanned EXCEPT ![cur] = {f \in files[cur] : is_dump(f)}]
    /\ pc' = "cleanup"
    /\ UNCHANGED <<queue, idx, dryRun, result, exitStatus, dirExists, creatable, files,
                   tmp, handlers, logFile, now, i, step, art, attempts, calls, status,
                   created, deleted, dirAtStart>>

\* one iteration of the for loop, on a file that is not over the age limit;
\* the glob yields the files in no particular order
CleanupKeep ==
    /\ pc = "cleanup"
    /\ \E f \in pending :
         /\ ~expired(current_time, f.mtime, max_age(cur))
         /\ pending' = pending \ {f}
    /\ UNCHANGED <<pc, queue, idx, dryRun, result, exitStatus, dirExists, creatable,
                   files, tmp, handlers, logFile, now, i, step, art, attempts, calls,
                   status, created, current_time, cleanupCalls, deleted, scanned,
                   dirAtStart>>

\* one iteration on an expired file in a dry run: only the log line
CleanupWouldDelete ==
    /\ pc = "cleanup"
    /\ dryRun
    /\ \E f \in pending :
         /\ expired(current_time, f.mtime, max_age(cur))
         /\ pending' = pending \ {f}
         /\ Emit(<<Line("INFO", "would_delete", TRUE, "-", NoCmd, f.name)>>)
    /\ UNCHANGED <<pc, queue, idx, dryRun, result, exitStatus, dirExists, creatable,
                   files, tmp, handlers, now, i, step, art, attempts, calls, status,
                   created, current_time, cleanupCalls, deleted, scanned, dirAtStart>>

\* one iteration on an expired file in a real run: file.unlink() succeeds
CleanupDelete ==
    /\ pc = "cleanup"
    /\ ~dryRun
    /\ \E f \in pending :
         /\ expired(current_time, f.mtime, max_age(cur))
         /\ pending' = pending \ {f}
         /\ files' = [files EXCEPT ![cur] = @ \ {f}]
         /\ deleted' = [deleted EXCEPT ![cur] = @ \cup {f}]
         /\ Emit(<<Line("INFO", "deleted", FALSE, "-", NoCmd, f.name)>>)
    /\ UNCHANGED <<pc, queue, idx, dryRun, result, exitStatus, dirExists, creatable,
                   tmp, handlers, now, i, step, art, attempts, calls, status, created,
                   current_time, cleanupCalls, scanned, dirAtStart>>

\* one iteration on an expired file in a real run: file.unlink() raises; the
\* exception leaves the for loop and is logged by the except of the function
CleanupDeleteFails ==
    /\ pc = "cleanup"
    /\ ~dryRun
    /\ \E f \in pending :
         /\ expired(current_time, f.mtime, max_age(cur))
         /\ pending' = pending \ {f}
    /\ IF cleanup_reraises
       THEN /\ Emit(<<Line("ERROR", "cleanup_failed", FALSE, "-", NoCmd, NoName),
                      Line("ERROR", "run_failed", FALSE, "-", NoCmd, NoName)>>)
            /\ result' = [result EXCEPT ![cur] = "False"]
            /\ pc' = "returned"
       ELSE /\ Emit(<<Line("ERROR", "cleanup_failed", FALSE, "-", NoCmd, NoName)>>)
            /\ pc' = cleanup_returns_to
            /\ UNCHANGED result
    /\ UNCHANGED <<queue, idx, dryRun, exitStatus, dirExists, creatable, files, tmp,
                   handlers, now, i, step, art, attempts, calls, status, created,
                   current_time, cleanupCalls, deleted, scanned, dirAtStart>>

\* the glob is exhausted: cleanup_old_backups returns
CleanupEnd ==
    /\ pc = "cleanup"
    /\ pending = {}
    /\ pc' = cleanup_returns_to
    /\ UNCHANGED <<queue, idx, dryRun, result, exitStatus, dirExists, creatable, files,
                   tmp, handlers, logFile, now, i, step, art, attempts, calls, status,
                   created, pending, current_time, cleanupCalls, deleted, scanned,
                   dirAtStart>>

\* lines 135-136: the closing line, return True
RunEnd ==
    /\ pc = "run_end"
    /\ Emit(<<Line("INFO", "run_done", dryRun, "-", NoCmd, NoName)>>)
    /\ result' = [result EXCEPT ![cur] = "True"]
    /\ pc' = "returned"
    /\ UNCHANGED <<queue, idx, dryRun, exitStatus, dirExists, creatable, files, tmp,
                   handlers, now, i, step, art, attempts, calls, status, created,
                   pending, current_time, cleanupCalls, deleted, scanned, dirAtStart>>

(* ------------------------------ the caller ---------------------------- *)
\* __main__: the next environment is constructed once the run of the previous
\* one returned (a step of a caller with more than one environment in queue)
HostNext ==
    /\ pc = "returned"
    /\ idx < Len(queue)
    /\ idx' = idx + 1
    /\ pc' = "construct"
    /\ UNCHANGED <<queue, dryRun, result, exitStatus, dirExists, creatable, files, tmp,
                   handlers, logFile, now, i, step, art, attempts, calls, status,
                   created, pending, current_time, cleanupCalls, deleted, scanned,
                   dirAtStart>>

\* exit(0 if (dev_success and test_success) else 1)
HostExit ==
    /\ pc = "returned"
    /\ idx = Len(queue)
    /\ exitStatus' = IF \A k \in DOMAIN queue : result[queue[k]] = "True" THEN 0 ELSE 1
    /\ pc' = "exited"
    /\ UNCHANGED <<queue, idx, dryRun, result, dirExists, creatable, files, tmp,
                   handlers, logFile, now, i, step, art, attempts, calls, status,
                   created, pending, current_time, cleanupCalls, deleted, scanned,
                   dirAtStart>>

Next ==
    \/ Construct
    \/ DirRemoved
    \/ RunBegin
    \/ RunMkdir
    \/ BackupBegin
    \/ RunCmdDry
    \/ RunCmdDispatch
    \/ CmdExitOk
    \/ CmdExitNonZero
    \/ CmdLaunchError
    \/ BackupComplete
    \/ CleanupBegin
    \/ CleanupKeep
    \/ CleanupWouldDelete
    \/ CleanupDelete
    \/ CleanupDeleteFails
    \/ CleanupEnd
    \/ RunEnd
    \/ HostExit

Spec == Init /\ [][Next]_vars

\* every statement of the single thread is eventually executed and every
\* command invocation eventually exits: subprocess.run returns or raises
SpecLive == Spec /\ WF_vars(Next)

\* a caller of the class calls cleanup_old_backups(dry_run) once more, right
\* after run returned True and with the same dry_run; nothing happened to the
\* directory in between
CleanupAgain ==
    /\ pc = "returned"
    /\ result[cur] = "True"
    /\ cleanupCalls[cur] = 1
    /\ cleanupCalls' = [cleanupCalls EXCEPT ![cur] = 2]
    /\ current_time' = now
    /\ pending' = {f \in files[cur] : is_dump(f)}
    /\ scanned' = [scanned EXCEPT ![cur] = {f \in files[cur] : is_dump(f)}]
    /\ deleted' = [deleted EXCEPT ![cur] = {}]
    /\ pc' = "cleanup"
    /\ UNCHANGED <<queue, idx, dryRun, result, exitStatus, dirExists, creatable, files,
                   tmp, handlers, logFile, now, i, step, art, attempts, calls, status,
                   created, dirAtStart>>

TwiceStep == Next \/ CleanupAgain

\* Spec with a second call of cleanup_old_backups after run
SpecTwice == Init /\ [][TwiceStep]_vars

(* __main__: the dev orchestrator is constructed and run, then the test one,
   both with dry_run=False, on backup directories that hold no dump file yet *)
HostInit ==
    /\ queue = <<"dev", "test">>
    /\ InitCommon
    /\ \A e \in Envs : \A f \in files[e] : ~is_dump(f)

HostStep ==
    \/ Construct
    \/ DirRemoved
    \/ HostRun
    \/ RunMkdir
    \/ BackupBegin
    \/ RunCmdDispatch
    \/ CmdExitOk
    \/ CmdExitNonZero
    \/ CmdLaunchError
    \/ BackupComplete
    \/ CleanupBegin
    \/ CleanupKeep
    \/ CleanupEnd
    \/ RunEnd
    \/ HostNext
    \/ HostExit

HostSpec == HostInit /\ [][HostStep]_vars

(* ======================= properties of the program ==================== *)
Returned(e) == result[e] # "none"

Kind(c) == IF IsCopy(c) THEN 2 ELSE IF IsDump(c) THEN 1 ELSE 3

\* the file name a command is about
NameOf(c) == IF IsCopy(c) THEN Tail(c[3][2]) ELSE IF IsDump(c) THEN Tail(c[12]) ELSE Tail(c[5])

\* executor invocations made for the k-th database of e, in order
CallsOf(e, k) == SelectSeq(calls, LAMBDA c : c.env = e /\ c.k = k)

\* the command exited non-zero: run_cmd logged its stderr
ExitedNonZero(e, c) ==
    \E n \in DOMAIN logFile[e] : logFile[e][n].msg = "stderr" /\ logFile[e][n].cmd = c

\* the run made for e has every database in state DONE
AllDone(e) == \A k \in DOMAIN databases(e) : status[e][k] = "DONE"

AllFailed(e) == \A k \in DOMAIN databases(e) : status[e][k] = "FAILED"

\* C1: in a non-dry run the executor is invoked for one database with the dump,
\* the fetch and the remote cleanup in this order, each at most once; a command
\* that exits non-zero is the last one invoked for its database, which ends
\* FAILED; after a failed dump no local file of that database is created.
C1_StrictOrderStopOnFailure ==
    \A e \in Envs : \A k \in DOMAIN databases(e) :
        LET cs == CallsOf(e, k) IN
        /\ Len(cs) <= NumCommands
        /\ \A j \in DOMAIN cs :
             /\ Kind(cs[j].cmd) = j
             /\ cs[j].cmd = commands(e, databases(e)[k], NameOf(cs[1].cmd))[j]
             /\ ExitedNonZero(e, cs[j].cmd) => j = Len(cs) /\ status[e][k] = "FAILED"
        /\ (Len(cs) >= 1 /\ ExitedNonZero(e, cs[1].cmd)) =>
               \A n \in created[e] : n[1] # databases(e)[k]

\* the dump of the first database exited non-zero and the second database
\* went through its three commands
C1_Witness ==
    /\ pc = "exited"
    /\ cur = "dev"
    /\ Len(CallsOf("dev", 1)) = 1
    /\ ExitedNonZero("dev", CallsOf("dev", 1)[1].cmd)
    /\ status["dev"][1] = "FAILED"
    /\ Len(CallsOf("dev", 2)) = NumCommands
    /\ status["dev"][2] = "DONE"

\* C2 as stated: a run that has returned has attempted every configured
\* database exactly once, in list order, and called cleanup_old_backups once.
C2_Original ==
    \A e \in Envs : Returned(e) =>
        /\ attempts[e] = databases(e)
        /\ cleanupCalls[e] = 1

\* C2 amended: the databases are attempted in list order, one at a time, each
\* at most once, and cleanup_old_backups is called at most once and only after
\* all of them; a run whose own directory creation succeeded has attempted all
\* of them and called cleanup once whatever their outcomes, and a run whose
\* directory creation failed has attempted none and has not called cleanup.
C2_Amended ==
    \A e \in Envs :
        /\ Len(attempts[e]) <= Len(databases(e))
        /\ \A k \in DOMAIN attempts[e] : attempts[e][k] = databases(e)[k]
        /\ \A k \in DOMAIN attempts[e] :
             (k < Len(attempts[e]) /\ ~dryRun) => status[e][k] \in {"DONE", "FAILED"}
        /\ cleanupCalls[e] <= 1
        /\ cleanupCalls[e] = 1 => attempts[e] = databases(e)
        /\ (Returned(e) /\ dirExists[e]) =>
               attempts[e] = databases(e) /\ cleanupCalls[e] = 1
        /\ (Returned(e) /\ ~dirExists[e]) =>
               attempts[e] = <<>> /\ cleanupCalls[e] = 0

\* the first database failed, the second was still attempted, then cleanup ran
C2_Witness ==
    /\ pc = "exited"
    /\ cur = "dev"
    /\ status["dev"][1] = "FAILED"
    /\ status["dev"][2] = "DONE"
    /\ attempts["dev"] = databases("dev")
    /\ cleanupCalls["dev"] = 1

\* C3: run returns False exactly when its own os.makedirs failed (the backup
\* directory is still absent); failures of the databases and of the cleanup
\* leave the returned value True.
C3_ReturnOnlyFromRunTry ==
    \A e \in Envs : Returned(e) => (result[e] = "True" <=> dirExists[e])

CleanupFailed(e) ==
    \E n \in DOMAIN logFile[e] : logFile[e][n].msg = "cleanup_failed"

\* every database failed, the cleanup failed too, and run returned True
C3_Witness ==
    /\ pc = "exited"
    /\ cur = "dev"
    /\ AllFailed("dev")
    /\ CleanupFailed("dev")
    /\ result["dev"] = "True"
    /\ exitStatus = 0

\* C4: no error leaves the component: the caller is never left by an
\* exception, and a backup directory that cannot be created shows as run
\* returning False.
C4_NothingRaisedPastBoundary ==
    /\ pc # "crashed"
    /\ \A e \in Envs : (Returned(e) /\ ~dirExists[e]) => result[e] = "False"

\* C5: after a run, a local dump file written by this run is in the backup
\* directory only if its database went through all three steps (DONE).
C5_LocalFileOnlyWhenAllStepsDone ==
    \A e \in Envs : Returned(e) =>
        \A f \in files[e] : f.name \in created[e] =>
            \E k \in DOMAIN databases(e) :
                databases(e)[k] = f.name[1] /\ status[e][k] = "DONE"

DryLines(e) == SelectSeq(logFile[e], LAMBDA l : l.msg = "cmd" /\ l.dry)

\* C6: a dry run that has returned made no executor invocation and logged
\* exactly 3N would-run lines: for each database in list order its dump, fetch
\* and remote cleanup command.
C6_DryRunLogs3N ==
    \A e \in Envs : (Returned(e) /\ dryRun) =>
        LET dl == DryLines(e) IN
        /\ \A n \in DOMAIN calls : calls[n].env # e
        /\ Len(dl) = NumCommands * Len(databases(e))
        /\ \A n \in DOMAIN dl :
             /\ dl[n].db = databases(e)[((n - 1) \div NumCommands) + 1]
             /\ Kind(dl[n].cmd) = ((n - 1) % NumCommands) + 1
             /\ dl[n].cmd = commands(e, dl[n].db, NameOf(dl[n].cmd))[Kind(dl[n].cmd)]

\* C7: a dry run leaves the backup directory as it was when run was entered.
C7_DryRunNoMutation ==
    \A e \in Envs : (Returned(e) /\ dryRun) => <<dirExists[e], files[e]>> = dirAtStart[e]

\* strptime of the name's time stamp, the inverse of date_str
parse_date(n) == n[2] * SecondsPerDay + n[3]

\* C8: a non-dry run in which every command exited 0 wrote exactly one local
\* file per database, named {db}_{timestamp}.dump, and every temp file dumped
\* in the container was removed by a recorded rm call, none remaining.
C8_AllSucceedNFilesNoTemp ==
    \A e \in Envs : (Returned(e) /\ ~dryRun /\ AllDone(e)) =>
        /\ Cardinality(created[e]) = Len(databases(e))
        /\ \A k \in DOMAIN databases(e) :
             \E n \in created[e] :
                /\ n = backup_filename(databases(e)[k], parse_date(n))
                /\ \E f \in files[e] \cup deleted[e] : f.name = n /\ f.content = "full"
        /\ tmp[e] = {}
        /\ \A a \in DOMAIN calls : (calls[a].env = e /\ IsDump(calls[a].cmd)) =>
             \E b \in DOMAIN calls :
                /\ b > a
                /\ calls[b].env = e
                /\ IsRemove(calls[b].cmd)
                /\ calls[b].cmd[5] = calls[a].cmd[12]

\* both databases of dev were dumped, fetched and cleaned up
C8_Witness ==
    /\ pc = "exited"
    /\ cur = "dev"
    /\ ~dryRun
    /\ AllDone("dev")
    /\ Cardinality(created["dev"]) = 2
    /\ Len(calls) = 6

\* C9: after cleanup_old_backups, a dump file it found has been deleted
\* exactly when the run is a real one and the file's age is over
\* retention_days * 86400 seconds.
C9_DeletedIffOverThreshold ==
    \A e \in Envs : (Returned(e) /\ cleanupCalls[e] = 1) =>
        \A f \in scanned[e] :
            (f \notin files[e]) <=>
                (~dryRun /\ current_time - f.mtime > retention_days(e) * 86400)

\* C10: when cleanup_old_backups is over, no expired dump file was left
\* unvisited, whatever happened to the deletion of another file, and the
\* failure is logged without changing what run returns.
C10_FilesIndependent ==
    \A e \in Envs : (Returned(e) /\ cleanupCalls[e] = 1 /\ ~dryRun) =>
        /\ \A f \in scanned[e] :
             (f \in pending /\ expired(current_time, f.mtime, max_age(e))) => f \in deleted[e]
        /\ CleanupFailed(e) => result[e] = "True"

(* --------------------------- the host, __main__ ----------------------- *)
ProcessEnded == pc \in {"exited", "crashed"}

\* C11: the environments are run one after another, the full cycle of dev
\* being over before anything of test begins; when the process ends every
\* environment has been run, and the exit status is 0 exactly when every run
\* returned True, 1 otherwise.
C11_SequentialRunsAndExitStatus ==
    /\ idx = 1 =>
          /\ result["test"] = "none"
          /\ attempts["test"] = <<>>
          /\ cleanupCalls["test"] = 0
          /\ \A n \in DOMAIN calls : calls[n].env = "dev"
    /\ idx = 2 =>
          /\ Returned("dev")
          /\ result["dev"] = "True" =>
                attempts["dev"] = databases("dev") /\ cleanupCalls["dev"] = 1
    /\ ProcessEnded =>
          /\ \A e \in Envs : Returned(e)
          /\ exitStatus \in {0, 1}
          /\ exitStatus = 0 <=> \A e \in Envs : result[e] = "True"

\* SubSeq(s, Len(s) - Len(t) + 1, Len(s)) = t
IsSuffix(t, s) ==
    /\ Len(t) <= Len(s)
    /\ \A n \in DOMAIN t : s[Len(s) - Len(t) + n] = t[n]

\* orchestrators constructed so far
Constructed == IF pc \in {"construct", "crashed"} THEN idx - 1 ELSE idx

\* C17: every construction adds one handler to the shared logger and none is
\* removed; what is logged while only dev is constructed reaches the dev log
\* alone, and every line that reaches the test log is also appended, at the
\* same time, to the dev log.
C17_SharedLoggerHandlers ==
    /\ Len(handlers) = Constructed
    /\ \A k \in DOMAIN handlers : handlers[k] = queue[k]
    /\ idx = 1 => logFile["test"] = <<>>
    /\ IsSuffix(logFile["test"], logFile["dev"])
    /\ (idx = 2 /\ Returned("test")) =>
          /\ Len(logFile["test"]) >= 2
          /\ Len(logFile["dev"]) >= Len(logFile["test"]) + 2

\* both runs are over; a command line of the test container is in the dev log
C17_Witness ==
    /\ pc = "exited"
    /\ handlers = <<"dev", "test">>
    /\ Len(logFile["test"]) > 0
    /\ Len(logFile["dev"]) > Len(logFile["test"])
    /\ \E n \in DOMAIN logFile["dev"] :
          /\ logFile["dev"][n].msg = "cmd"
          /\ logFile["dev"][n].cmd[3] = container_name("test")
    /\ \A n \in DOMAIN logFile["test"] :
          logFile["test"][n].msg = "cmd" => logFile["test"][n].cmd[3] = container_name("test")

(* ------------------------- files that are no dump --------------------- *)
OtherFiles(fs) == {f \in fs : f.name[4] # "dump"}

\* backup.log is a file of the backup directory of e; its content is what the
\* handler of e has written
HasLogFile(e) == \E f \in files[e] : f.name = log_file

WrittenByCleanup(l) == l.msg \in {"would_delete", "deleted", "cleanup_failed"}

SecondCleanupOver(e) == cleanupCalls[e] = 2 /\ pc \in {"returned", "exited"}

\* C13: in a real run, a second call of cleanup_old_backups right after the
\* first, with no file added in between, deletes nothing: the dump files are
\* those the first call left.
C13_SecondCallChangesNothing ==
    \A e \in Envs : (SecondCleanupOver(e) /\ ~dryRun) =>
        /\ deleted[e] = {}
        /\ {f \in files[e] : f.name[4] = "dump"} = scanned[e]

(* ------------------ retention after a successful run ------------------ *)
\* C14: after a non-dry run in which every external command exited 0, every
\* dump file that was in the directory before the run and is older than the
\* retention window has been deleted, and every dump file this run created is
\* still in the directory.
C14_OldDeletedNewKept ==
    \A e \in Envs : (Returned(e) /\ ~dryRun /\ AllDone(e) /\ cleanupCalls[e] = 1) =>
        /\ \A f \in dirAtStart[e][2] :
             (f.name[4] = "dump" /\ current_time - f.mtime > retention_days(e) * 86400)
                 => f \notin files[e]
        /\ \A n \in created[e] : \E f \in files[e] : f.name = n

(* ------------------------- the log of a real run ---------------------- *)
\* the terminal lines logged for the k-th database of e
TerminalLines(e, k) ==
    SelectSeq(logFile[e], LAMBDA l : /\ l.msg \in {"backup_done", "backup_failed"}
                                     /\ l.db = databases(e)[k])

\* C15: in a non-dry run every database whose backup_database call is over
\* has exactly one terminal line in the log: the completion line when its
\* three commands succeeded (DONE), the failure line naming it otherwise
\* (FAILED); a database still in progress or not yet attempted has none; and
\* the stderr line of a command that exited non-zero is directly followed by
\* the failure line of its database.
C15_OneTerminalLinePerDatabase ==
    \A e \in Envs : (HandlerCount(handlers, e) = 1 /\ ~dryRun) =>
        /\ \A k \in DOMAIN databases(e) :
             LET t == TerminalLines(e, k) IN
             /\ status[e][k] = "DONE" =>
                    /\ Len(t) = 1
                    /\ t[1].msg = "backup_done"
                    /\ Len(CallsOf(e, k)) = NumCommands
             /\ status[e][k] = "FAILED" => Len(t) = 1 /\ t[1].msg = "backup_failed"
             /\ status[e][k] \notin {"DONE", "FAILED"} => Len(t) = 0
             /\ (k < Len(attempts[e]) \/ (k = Len(attempts[e]) /\ Returned(e)))
                    => status[e][k] \in {"DONE", "FAILED"}
        /\ \A n \in DOMAIN logFile[e] :
             logFile[e][n].msg = "stderr" =>
                /\ logFile[e][n].level = "ERROR"
                /\ n < Len(logFile[e])
                /\ logFile[e][n + 1].msg = "backup_failed"
                /\ logFile[e][n + 1].db = logFile[e][n].db

\* dev: the first database failed on a non-zero exit, the second completed;
\* the log holds the stderr line, one failure line and one completion line
C15_Witness ==
    /\ pc = "exited"
    /\ cur = "dev"
    /\ ~dryRun
    /\ status["dev"] = <<"FAILED", "DONE">>
    /\ \E n \in DOMAIN logFile["dev"] : logFile["dev"][n].msg = "stderr"
    /\ Len(TerminalLines("dev", 1)) = 1
    /\ Len(TerminalLines("dev", 2)) = 1

(* ------------------------------ termination --------------------------- *)
\* the thread is blocked in subprocess.run (line 55)
Blocked == pc = "wait"

\* C16: when every command invocation eventually exits, a run that has begun
\* eventually returns True or False, and it never makes more than three
\* executor invocations per configured database; while an invocation has not
\* exited the thread stays in it: the only step it takes is the exit of that
\* invocation, which by itself returns nothing from run, invokes no other
\* command, begins no other database and no cleanup.
C16_ReturnsAfterAtMost3NCalls ==
    /\ (pc = "mkdir") ~> (pc = "returned" /\ Returned(cur))
    /\ [](Len(calls) <= NumCommands * Len(databases(cur)))
    /\ [][Blocked =>
            /\ pc' \in {"cmd", "loop"}
            /\ result' = result
            /\ calls' = calls
            /\ attempts' = attempts
            /\ cleanupCalls' = cleanupCalls]_vars

\* dev has returned after exactly 3 x 2 invocations, the last of which exited
\* non-zero
C16_Witness ==
    /\ pc = "returned"
    /\ cur = "dev"
    /\ ~dryRun
    /\ Len(calls) = NumCommands * Len(databases("dev"))
    /\ status["dev"] = <<"DONE", "FAILED">>
    /\ Returned("dev")

====
